---------------------------- MODULE Spec2Model ----------------------------
(***************************************************************************)
(* Model of the financial summary report generator:                        *)
(*   src/project_group/cash_on_hand.py   (cash reader, differences,        *)
(*                                        extremes)                        *)
(*   src/profit_and_loss.py              (profit reader, differences,      *)
(*                                        extremes)                        *)
(*   src/project_group/overheads.py      (overheads reader, highest)       *)
(*   src/project_group/main.py           (generate_summary_report)         *)
(*                                                                         *)
(* Python tuples (day, value) are the TLA+ tuples <<day, value>>, so that  *)
(* item[0] is t[1] and item[1] is t[2].  Python floats are modelled by a   *)
(* binary floating-point format with MantissaBits significant bits and     *)
(* round-to-nearest-even, over integers (the exponent range is not         *)
(* bounded below 0: every value is an integer multiple of 1).              *)
(***************************************************************************)
EXTENDS Integers, Sequences, FiniteSets, TLC

VARIABLES
    pc,                  \* position in the running function
    steps,               \* history: the statements executed so far, in order
    cash_file,           \* contents of csv_reports/cash_on_hand.csv
    overheads_file,      \* contents of csv_reports/Overheads.csv
    profit_file,         \* contents of csv_reports/Profit_and_Loss.csv
    cash_data,           \* main.py:22
    cash_differences,    \* main.py:23
    cash_extremes,       \* main.py:24  <<cash_increase, cash_decrease, cash_deficits>>
    overheads_data,      \* main.py:28
    highest_overhead,    \* main.py:29
    profit_data,         \* main.py:33
    profit_differences,  \* main.py:34
    profit_extremes,     \* main.py:35
    report_file,         \* summary_report.txt: "absent", "open" or "closed"
    report,              \* the lines written to summary_report.txt
    error                \* the exception that ended the run, "" if none

vars == <<pc, steps, cash_file, overheads_file, profit_file, cash_data,
          cash_differences, cash_extremes, overheads_data, highest_overhead,
          profit_data, profit_differences, profit_extremes, report_file,
          report, error>>

---------------------------------------------------------------------------
(* Bounds of the model *)

\* significant bits of the modelled float format (53 in CPython)
MantissaBits == 2
\* magnitudes of the (day, value) inputs of compute_differences
MaxValue == 3
\* rows of an input of compute_differences
MaxRows == 4
\* magnitudes of the deltas given to find_extremes
MaxDelta == 2
\* length of a delta sequence given to find_extremes
MaxDeltas == 4
\* overhead amounts and number of overhead records given to find_highest_overhead
MaxOverhead == 2
MaxOverheads == 3
\* rows of a CSV file, and largest number written in a cell, in a whole run
MaxFileRows == 2
MaxCell == 1
\* deltas of the two sections together, and their magnitude, in a report
MaxReportDeltas == 4
MaxReportDelta == 2

---------------------------------------------------------------------------
(* Python floats *)

Abs(x) == IF x < 0 THEN -x ELSE x

RECURSIVE Pow2(_)
Pow2(n) == IF n = 0 THEN 1 ELSE 2 * Pow2(n - 1)

\* the least e with m \div 2^e < 2^MantissaBits
RECURSIVE Exponent(_, _)
Exponent(m, e) ==
    IF m \div Pow2(e) < Pow2(MantissaBits) THEN e ELSE Exponent(m, e + 1)

\* round a magnitude to MantissaBits significant bits, ties to even
RoundMagnitude(m) ==
    LET e == Exponent(m, 0)
        q == m \div Pow2(e)
        r == m % Pow2(e)
        up == \/ 2 * r > Pow2(e)
              \/ 2 * r = Pow2(e) /\ q % 2 = 1
    IN  IF e = 0 THEN m ELSE (IF up THEN q + 1 ELSE q) * Pow2(e)

\* the float nearest to the real number x: float(text), and the rounding of
\* every arithmetic result
FRound(x) == IF x < 0 THEN -RoundMagnitude(-x) ELSE RoundMagnitude(x)

Representable(x) == FRound(x) = x

\* a - b and a + b on floats
FSub(a, b) == FRound(a - b)

FAdd(a, b) == FRound(a + b)

Floats(max) == {x \in -max..max : Representable(x)}

---------------------------------------------------------------------------
(* compute_differences *)

\* a faulty variant of the cash loop: range(1, len) replaced by range(2, len)
RECURSIVE CashDiffLoopSkipFirst(_, _, _)
CashDiffLoopSkipFirst(data, i, differences) ==
    IF i + 1 >= Len(data) THEN differences
    ELSE CashDiffLoopSkipFirst(data, i + 1,
            Append(differences,
                   <<data[i + 2][1], FSub(data[i + 2][2], data[i + 1][2])>>))

\* cash_on_hand.py: for i in range(1, len(cash_data)), with i the Python
\* index: cash_data[i] is data[i + 1]
RECURSIVE CashDiffLoop(_, _, _)
CashDiffLoop(data, i, differences) ==
    IF i >= Len(data) THEN differences
    ELSE CashDiffLoop(data, i + 1,
            Append(differences,
                   <<data[i + 1][1], FSub(data[i + 1][2], data[i][2])>>))

cash_compute_differences(data) == CashDiffLoop(data, 1, <<>>)

\* profit_and_loss.py: the same loop, written with tuple unpacking
RECURSIVE ProfitDiffLoop(_, _, _)
ProfitDiffLoop(data, i, differences) ==
    IF i >= Len(data) THEN differences
    ELSE LET current_day == data[i + 1][1]
             current_profit == data[i + 1][2]
             previous_profit == data[i][2]
             difference == FSub(current_profit, previous_profit)
         IN  ProfitDiffLoop(data, i + 1,
                Append(differences, <<current_day, difference>>))

profit_compute_differences(data) == ProfitDiffLoop(data, 1, <<>>)

---------------------------------------------------------------------------
(* find_extremes *)

\* the sentinel (0, 0) of highest_increase and highest_decrease
Sentinel == <<0, 0>>

\* the slice [:3]
TopCount == 3

Take(s, n) == SubSeq(s, 1, IF Len(s) < n THEN Len(s) ELSE n)

\* a faulty variant of the sort: an element goes before the elements of equal key
RECURSIVE InsertBeforeEqual(_, _)
InsertBeforeEqual(sorted, item) ==
    IF sorted = <<>> THEN <<item>>
    ELSE IF item[2] <= sorted[1][2] THEN <<item>> \o sorted
    ELSE <<sorted[1]>> \o InsertBeforeEqual(Tail(sorted), item)

\* list.sort(key=...) and sorted(..., key=...) are the same stable sort,
\* ascending by item[1]: an element goes after the elements of equal key
RECURSIVE InsertByAmount(_, _)
InsertByAmount(sorted, item) ==
    IF sorted = <<>> THEN <<item>>
    ELSE IF item[2] < sorted[1][2] THEN <<item>> \o sorted
    ELSE <<sorted[1]>> \o InsertByAmount(Tail(sorted), item)

RECURSIVE SortLoop(_, _)
SortLoop(items, sorted) ==
    IF items = <<>> THEN sorted
    ELSE SortLoop(Tail(items), InsertByAmount(sorted, items[1]))

SortByAmount(items) == SortLoop(items, <<>>)

\* a faulty variant of the cash scan: ties replace the running maximum (>=)
RECURSIVE CashExtremesLoopLastTie(_, _, _, _, _)
CashExtremesLoopLastTie(differences, i, highest_increase, highest_decrease, deficits) ==
    IF i > Len(differences)
    THEN <<highest_increase, highest_decrease, deficits>>
    ELSE LET day == differences[i][1]
             difference == differences[i][2]
             inc == IF difference >= highest_increase[2]
                    THEN <<day, difference>> ELSE highest_increase
             dec == IF ~(difference >= highest_increase[2])
                       /\ difference < highest_decrease[2]
                    THEN <<day, difference>> ELSE highest_decrease
             defs == IF difference < 0
                     THEN Append(deficits, <<day, difference>>) ELSE deficits
         IN  CashExtremesLoopLastTie(differences, i + 1, inc, dec, defs)

\* a faulty variant of the cash scan: ties replace the running minimum (<=)
RECURSIVE CashExtremesLoopLastMin(_, _, _, _, _)
CashExtremesLoopLastMin(differences, i, highest_increase, highest_decrease, deficits) ==
    IF i > Len(differences)
    THEN <<highest_increase, highest_decrease, deficits>>
    ELSE LET day == differences[i][1]
             difference == differences[i][2]
             inc == IF difference > highest_increase[2]
                    THEN <<day, difference>> ELSE highest_increase
             dec == IF ~(difference > highest_increase[2])
                       /\ difference <= highest_decrease[2]
                    THEN <<day, difference>> ELSE highest_decrease
             defs == IF difference < 0
                     THEN Append(deficits, <<day, difference>>) ELSE deficits
         IN  CashExtremesLoopLastMin(differences, i + 1, inc, dec, defs)

\* cash_on_hand.py: for day, difference in differences: if / elif / if
RECURSIVE CashExtremesLoop(_, _, _, _, _)
CashExtremesLoop(differences, i, highest_increase, highest_decrease, deficits) ==
    IF i > Len(differences)
    THEN <<highest_increase, highest_decrease, deficits>>
    ELSE LET day == differences[i][1]
             difference == differences[i][2]
             inc == IF difference > highest_increase[2]
                    THEN <<day, difference>> ELSE highest_increase
             dec == IF ~(difference > highest_increase[2])
                       /\ difference < highest_decrease[2]
                    THEN <<day, difference>> ELSE highest_decrease
             defs == IF difference < 0
                     THEN Append(deficits, <<day, difference>>) ELSE deficits
         IN  CashExtremesLoop(differences, i + 1, inc, dec, defs)

\* deficits.sort(key=deficit_sort); top_deficits = deficits[:3]
CashTopDeficits(deficits) == Take(SortByAmount(deficits), TopCount)

cash_find_extremes(differences) ==
    LET r == CashExtremesLoop(differences, 1, Sentinel, Sentinel, <<>>)
    IN  <<r[1], r[2], CashTopDeficits(r[3])>>

\* profit_and_loss.py: the same scan
RECURSIVE ProfitExtremesLoop(_, _, _, _, _)
ProfitExtremesLoop(differences, i, highest_increase, highest_decrease, deficits) ==
    IF i > Len(differences)
    THEN <<highest_increase, highest_decrease, deficits>>
    ELSE LET day == differences[i][1]
             difference == differences[i][2]
             inc == IF difference > highest_increase[2]
                    THEN <<day, difference>> ELSE highest_increase
             dec == IF ~(difference > highest_increase[2])
                       /\ difference < highest_decrease[2]
                    THEN <<day, difference>> ELSE highest_decrease
             defs == IF difference < 0
                     THEN Append(deficits, <<day, difference>>) ELSE deficits
         IN  ProfitExtremesLoop(differences, i + 1, inc, dec, defs)

\* a faulty variant of the profit version: the deficits are sliced without sorting
ProfitTopDeficitsUnsorted(deficits) == Take(deficits, TopCount)

\* deficits_sorted = sorted(deficits, key=sort_deficit);
\* top_deficits = deficits_sorted[:3]
ProfitTopDeficits(deficits) ==
    LET deficits_sorted == SortByAmount(deficits)
    IN  Take(deficits_sorted, TopCount)

profit_find_extremes(differences) ==
    LET r == ProfitExtremesLoop(differences, 1, Sentinel, Sentinel, <<>>)
    IN  <<r[1], r[2], ProfitTopDeficits(r[3])>>

---------------------------------------------------------------------------
(* find_highest_overhead *)

\* highest_overhead = {'category': '', 'overhead': 0}
OverheadSentinel == [category |-> "", overhead |-> 0]

\* a faulty variant of the scan: ties replace the running maximum (>=)
RECURSIVE HighestOverheadLoopLastTie(_, _, _)
HighestOverheadLoopLastTie(overheads, i, highest) ==
    IF i > Len(overheads) THEN highest
    ELSE HighestOverheadLoopLastTie(overheads, i + 1,
            IF overheads[i].overhead >= highest.overhead
            THEN overheads[i] ELSE highest)

\* for category_data in overheads: if ... > highest_overhead['overhead']
RECURSIVE HighestOverheadLoop(_, _, _)
HighestOverheadLoop(overheads, i, highest) ==
    IF i > Len(overheads) THEN highest
    ELSE HighestOverheadLoop(overheads, i + 1,
            IF overheads[i].overhead > highest.overhead
            THEN overheads[i] ELSE highest)

find_highest_overhead(overheads) ==
    HighestOverheadLoop(overheads, 1, OverheadSentinel)

---------------------------------------------------------------------------
(* The CSV files, as csv.DictReader yields them: a file is the sequence of *)
(* its rows, a row maps the column names of the header to cells, and a     *)
(* cell is a decimal numeral, some other text, or None (the row is shorter *)
(* than the header).                                                       *)

Num(n) == [kind |-> "num", num |-> n, text |-> ""]

Text(t) == [kind |-> "text", num |-> 0, text |-> t]

NoneCell == [kind |-> "none", num |-> 0, text |-> ""]

\* the value None of a category read from a short row
PyNone == "<None>"

\* the exception of row[column], int(cell) or float(cell); "" when none
LookupError(row, column) ==
    IF column \notin DOMAIN row THEN "KeyError"
    ELSE IF row[column].kind = "none" THEN "TypeError"
    ELSE IF row[column].kind = "text" THEN "ValueError"
    ELSE ""

\* cash_on_hand.py: for row in reader: int(row['Day']),
\* float(row['Cash On Hand']), append
RECURSIVE ReadCashLoop(_, _, _)
ReadCashLoop(rows, i, cash_data_) ==
    IF i > Len(rows) THEN [exc |-> "", data |-> cash_data_]
    ELSE IF LookupError(rows[i], "Day") # ""
    THEN [exc |-> LookupError(rows[i], "Day"), data |-> <<>>]
    ELSE IF LookupError(rows[i], "Cash On Hand") # ""
    THEN [exc |-> LookupError(rows[i], "Cash On Hand"), data |-> <<>>]
    ELSE ReadCashLoop(rows, i + 1,
            Append(cash_data_, <<rows[i]["Day"].num,
                                 FRound(rows[i]["Cash On Hand"].num)>>))

read_cash_on_hand(file) == ReadCashLoop(file, 1, <<>>)

\* profit_and_loss.py: the same loop over 'Day' and 'Net Profit'
RECURSIVE ReadProfitLoop(_, _, _)
ReadProfitLoop(rows, i, profit_loss_data) ==
    IF i > Len(rows) THEN [exc |-> "", data |-> profit_loss_data]
    ELSE IF LookupError(rows[i], "Day") # ""
    THEN [exc |-> LookupError(rows[i], "Day"), data |-> <<>>]
    ELSE IF LookupError(rows[i], "Net Profit") # ""
    THEN [exc |-> LookupError(rows[i], "Net Profit"), data |-> <<>>]
    ELSE ReadProfitLoop(rows, i + 1,
            Append(profit_loss_data, <<rows[i]["Day"].num,
                                       FRound(rows[i]["Net Profit"].num)>>))

read_profit_loss(file) == ReadProfitLoop(file, 1, <<>>)

\* overheads.py: category = row['Category'] is not converted: a None passes
RECURSIVE ReadOverheadsLoop(_, _, _)
ReadOverheadsLoop(rows, i, overheads) ==
    IF i > Len(rows) THEN [exc |-> "", data |-> overheads]
    ELSE IF "Category" \notin DOMAIN rows[i]
    THEN [exc |-> "KeyError", data |-> <<>>]
    ELSE IF LookupError(rows[i], "Overheads") # ""
    THEN [exc |-> LookupError(rows[i], "Overheads"), data |-> <<>>]
    ELSE ReadOverheadsLoop(rows, i + 1,
            Append(overheads,
                   [category |-> IF rows[i]["Category"].kind = "none"
                                 THEN PyNone ELSE rows[i]["Category"].text,
                    overhead |-> FRound(rows[i]["Overheads"].num)]))

read_overheads(file) == ReadOverheadsLoop(file, 1, <<>>)

---------------------------------------------------------------------------
(* generate_summary_report: the lines of the report *)

Categories == {"Rent", "Payroll"}

\* str.upper()
Upper(c) ==
    CASE c = "Rent" -> "RENT"
      [] c = "Payroll" -> "PAYROLL"
      [] OTHER -> c

\* one written line: its label, the ordinal of a ranked line, and the values
\* formatted into it
Line(label, ordinal, category, day, amount) ==
    [label |-> label, ordinal |-> ordinal, category |-> category,
     day |-> day, amount |-> amount]

Blank == Line("", "", "", 0, 0)

\* ["1ST", "2ND", "3RD"]
Ordinals == <<"1ST", "2ND", "3RD">>

\* a faulty variant of the consistency check: no delta is positive
ConsistentNoIncrease(differences) ==
    \A i \in 1..Len(differences) : differences[i][2] <= 0

\* all(difference >= 0 for _, difference in differences)
Consistent(differences) ==
    \A i \in 1..Len(differences) : differences[i][2] >= 0

\* for day, deficit in differences: if deficit < 0: write the deficit line
RECURSIVE DeficitLines(_, _, _)
DeficitLines(differences, i, label) ==
    IF i > Len(differences) THEN <<>>
    ELSE (IF differences[i][2] < 0
          THEN <<Line(label, "", "", differences[i][1], Abs(differences[i][2]))>>
          ELSE <<>>) \o DeficitLines(differences, i + 1, label)

\* a faulty variant of the ranked lines: the signed amount is written
RankedLinesSigned(deficits_sorted, label) ==
    [i \in 1..Len(deficits_sorted) |->
        Line(label, Ordinals[i], "", deficits_sorted[i][1], deficits_sorted[i][2])]

\* for i, (day, deficit) in enumerate(deficits_sorted, start=1)
RankedLines(deficits_sorted, label) ==
    [i \in 1..Len(deficits_sorted) |->
        Line(label, Ordinals[i], "", deficits_sorted[i][1],
             Abs(deficits_sorted[i][2]))]

\* sorted(cash_deficits, key=sort_by_amount)[:3]
ReportTopDeficits(top_deficits) == Take(SortByAmount(top_deficits), TopCount)

\* main.py:50-64
CashSection(differences, cash_increase, cash_deficits) ==
    IF Consistent(differences)
    THEN <<Line("HIGHEST CASH SURPLUS", "", "", cash_increase[1], cash_increase[2]),
           Blank>>
    ELSE DeficitLines(differences, 1, "CASH DEFICIT")
         \o <<Blank>>
         \o RankedLines(ReportTopDeficits(cash_deficits), "HIGHEST CASH DEFICIT")
         \o <<Blank>>

\* main.py:67-89
ProfitSection(differences, profit_increase, profit_deficits) ==
    IF Consistent(differences)
    THEN <<Line("HIGHEST NET PROFIT SURPLUS", "", "",
                profit_increase[1], profit_increase[2]),
           Blank>>
    ELSE DeficitLines(differences, 1, "NET PROFIT DEFICIT")
         \o <<Blank>>
         \o RankedLines(ReportTopDeficits(profit_deficits),
                        "HIGHEST NET PROFIT DEFICIT")
         \o <<Blank>>

---------------------------------------------------------------------------
(* The inputs of a run: the files the three readers may find *)

\* the cells of a numeric column: numerals, other text, or no cell
NumericCells(least, most) ==
    {Num(n) : n \in least..most} \cup {Text("abc"), NoneCell}

\* the cells of the Category column
CategoryCells == {Text("Rent"), NoneCell}

\* the rows under a header with both columns, or with one of them missing
RowsOf(c1, cells1, c2, cells2) ==
    {[c \in {c1, c2} |-> IF c = c1 THEN x ELSE y] : x \in cells1, y \in cells2}
    \cup {[c \in {c1} |-> x] : x \in cells1}
    \cup {[c \in {c2} |-> y] : y \in cells2}

\* a cell of the row makes int() or float() raise (a category is not
\* converted)
RowRaises(row) ==
    \E c \in DOMAIN row \ {"Category"} : LookupError(row, c) # ""

\* the files of up to MaxFileRows rows, all rows under the same header.  A
\* reader stops at the first row that raises and never looks at the rows
\* after it: a file is given up to that row.
FilesOf(rows) ==
    UNION {{f \in [1..n -> rows] :
               /\ \A i \in 1..n : DOMAIN f[i] = DOMAIN f[1]
               /\ \A i \in 1..(n - 1) : ~RowRaises(f[i])} : n \in 0..MaxFileRows}

\* the days of a file are its row numbers
DaysAscend(f) ==
    \A i \in 1..Len(f) :
        ("Day" \in DOMAIN f[i] /\ f[i]["Day"].kind = "num") => f[i]["Day"].num = i

CashFiles ==
    {f \in FilesOf(RowsOf("Day", NumericCells(1, MaxFileRows),
                          "Cash On Hand", NumericCells(0, MaxCell))) :
        DaysAscend(f)}

ProfitFiles ==
    {f \in FilesOf(RowsOf("Day", NumericCells(1, MaxFileRows),
                          "Net Profit", NumericCells(0, MaxCell))) :
        DaysAscend(f)}

OverheadsFiles ==
    FilesOf(RowsOf("Category", CategoryCells,
                   "Overheads", NumericCells(1, MaxCell)))

---------------------------------------------------------------------------
(* generate_summary_report: the statements, in program order *)

\* a faulty variant of the order: the report is opened before the profit file is read
OrderOpenBeforeProfit ==
    <<"read_cash", "cash_differences", "cash_extremes",
      "read_overheads", "highest_overhead", "open",
      "read_profit", "profit_differences", "profit_extremes",
      "write_overhead", "write_cash", "write_profit", "close">>

\* main.py:22-89
Order ==
    <<"read_cash", "cash_differences", "cash_extremes",
      "read_overheads", "highest_overhead",
      "read_profit", "profit_differences", "profit_extremes",
      "open", "write_overhead", "write_cash", "write_profit", "close">>

\* the statement after `label` in `order`; "done" after the last
After(order, label) ==
    LET i == CHOOSE k \in 1..Len(order) : order[k] = label
    IN  IF i = Len(order) THEN "done" ELSE order[i + 1]

\* the statement `label` completes
Advance(order, label) ==
    /\ pc' = After(order, label)
    /\ steps' = Append(steps, label)
    /\ error' = error

\* the statement `label` raises: the run ends, and the with block closes
\* the report if it is open
Raise(label, exc) ==
    /\ pc' = "error"
    /\ steps' = Append(steps, label)
    /\ error' = exc

ReadCash(order) ==
    /\ pc = "read_cash"
    /\ \E f \in CashFiles :
         /\ cash_file' = f
         /\ IF read_cash_on_hand(f).exc = ""
            THEN /\ cash_data' = read_cash_on_hand(f).data
                 /\ Advance(order, "read_cash")
            ELSE /\ cash_data' = cash_data
                 /\ Raise("read_cash", read_cash_on_hand(f).exc)
    /\ report_file' = IF pc' = "error" /\ report_file = "open"
                      THEN "closed" ELSE report_file
    /\ UNCHANGED <<overheads_file, profit_file, cash_differences, cash_extremes,
                   overheads_data, highest_overhead, profit_data,
                   profit_differences, profit_extremes, report>>

CashComputeDifferences(order) ==
    /\ pc = "cash_differences"
    /\ cash_differences' = cash_compute_differences(cash_data)
    /\ Advance(order, "cash_differences")
    /\ UNCHANGED <<cash_file, overheads_file, profit_file, cash_data,
                   cash_extremes, overheads_data, highest_overhead, profit_data,
                   profit_differences, profit_extremes, report_file, report>>

CashFindExtremes(order) ==
    /\ pc = "cash_extremes"
    /\ cash_extremes' = cash_find_extremes(cash_differences)
    /\ Advance(order, "cash_extremes")
    /\ UNCHANGED <<cash_file, overheads_file, profit_file, cash_data,
                   cash_differences, overheads_data, highest_overhead,
                   profit_data, profit_differences, profit_extremes,
                   report_file, report>>

ReadOverheads(order) ==
    /\ pc = "read_overheads"
    /\ \E f \in OverheadsFiles :
         /\ overheads_file' = f
         /\ IF read_overheads(f).exc = ""
            THEN /\ overheads_data' = read_overheads(f).data
                 /\ Advance(order, "read_overheads")
            ELSE /\ overheads_data' = overheads_data
                 /\ Raise("read_overheads", read_overheads(f).exc)
    /\ report_file' = IF pc' = "error" /\ report_file = "open"
                      THEN "closed" ELSE report_file
    /\ UNCHANGED <<cash_file, profit_file, cash_data, cash_differences,
                   cash_extremes, highest_overhead, profit_data,
                   profit_differences, profit_extremes, report>>

FindHighestOverhead(order) ==
    /\ pc = "highest_overhead"
    /\ highest_overhead' = find_highest_overhead(overheads_data)
    /\ Advance(order, "highest_overhead")
    /\ UNCHANGED <<cash_file, overheads_file, profit_file, cash_data,
                   cash_differences, cash_extremes, overheads_data, profit_data,
                   profit_differences, profit_extremes, report_file, report>>

ReadProfit(order) ==
    /\ pc = "read_profit"
    /\ \E f \in ProfitFiles :
         /\ profit_file' = f
         /\ IF read_profit_loss(f).exc = ""
            THEN /\ profit_data' = read_profit_loss(f).data
                 /\ Advance(order, "read_profit")
            ELSE /\ profit_data' = profit_data
                 /\ Raise("read_profit", read_profit_loss(f).exc)
    /\ report_file' = IF pc' = "error" /\ report_file = "open"
                      THEN "closed" ELSE report_file
    /\ UNCHANGED <<cash_file, overheads_file, cash_data, cash_differences,
                   cash_extremes, overheads_data, highest_overhead,
                   profit_differences, profit_extremes, report>>

ProfitComputeDifferences(order) ==
    /\ pc = "profit_differences"
    /\ profit_differences' = profit_compute_differences(profit_data)
    /\ Advance(order, "profit_differences")
    /\ UNCHANGED <<cash_file, overheads_file, profit_file, cash_data,
                   cash_differences, cash_extremes, overheads_data,
                   highest_overhead, profit_data, profit_extremes,
                   report_file, report>>

ProfitFindExtremes(order) ==
    /\ pc = "profit_extremes"
    /\ profit_extremes' = profit_find_extremes(profit_differences)
    /\ Advance(order, "profit_extremes")
    /\ UNCHANGED <<cash_file, overheads_file, profit_file, cash_data,
                   cash_differences, cash_extremes, overheads_data,
                   highest_overhead, profit_data, profit_differences,
                   report_file, report>>

\* with open('summary_report.txt', 'w') as file: the file is created or
\* truncated
OpenReport(order) ==
    /\ pc = "open"
    /\ report_file' = "open"
    /\ report' = <<>>
    /\ Advance(order, "open")
    /\ UNCHANGED <<cash_file, overheads_file, profit_file, cash_data,
                   cash_differences, cash_extremes, overheads_data,
                   highest_overhead, profit_data, profit_differences,
                   profit_extremes>>

\* main.py:41: highest_overhead['category'].upper() raises on None
WriteOverhead(order) ==
    /\ pc = "write_overhead"
    /\ IF highest_overhead.category = PyNone
       THEN /\ Raise("write_overhead", "AttributeError")
            /\ report_file' = "closed"
            /\ report' = report
       ELSE /\ Advance(order, "write_overhead")
            /\ report_file' = report_file
            /\ report' = report \o
                 <<Line("HIGHEST OVERHEAD", "", Upper(highest_overhead.category),
                        0, highest_overhead.overhead),
                   Blank>>
    /\ UNCHANGED <<cash_file, overheads_file, profit_file, cash_data,
                   cash_differences, cash_extremes, overheads_data,
                   highest_overhead, profit_data, profit_differences,
                   profit_extremes>>

WriteCashSection(order) ==
    /\ pc = "write_cash"
    /\ report' = report \o
         CashSection(cash_differences, cash_extremes[1], cash_extremes[3])
    /\ Advance(order, "write_cash")
    /\ UNCHANGED <<cash_file, overheads_file, profit_file, cash_data,
                   cash_differences, cash_extremes, overheads_data,
                   highest_overhead, profit_data, profit_differences,
                   profit_extremes, report_file>>

WriteProfitSection(order) ==
    /\ pc = "write_profit"
    /\ report' = report \o
         ProfitSection(profit_differences, profit_extremes[1], profit_extremes[3])
    /\ Advance(order, "write_profit")
    /\ UNCHANGED <<cash_file, overheads_file, profit_file, cash_data,
                   cash_differences, cash_extremes, overheads_data,
                   highest_overhead, profit_data, profit_differences,
                   profit_extremes, report_file>>

\* the end of the with block
CloseReport(order) ==
    /\ pc = "close"
    /\ report_file' = "closed"
    /\ Advance(order, "close")
    /\ UNCHANGED <<cash_file, overheads_file, profit_file, cash_data,
                   cash_differences, cash_extremes, overheads_data,
                   highest_overhead, profit_data, profit_differences,
                   profit_extremes, report>>

---------------------------------------------------------------------------
(* A run of generate_summary_report *)

Unset ==
    /\ steps = <<>>
    /\ cash_file = <<>>
    /\ overheads_file = <<>>
    /\ profit_file = <<>>
    /\ report_file = "absent"
    /\ report = <<>>
    /\ error = ""

Init ==
    /\ pc = "read_cash"
    /\ Unset
    /\ cash_data = <<>>
    /\ cash_differences = <<>>
    /\ cash_extremes = <<Sentinel, Sentinel, <<>>>>
    /\ overheads_data = <<>>
    /\ highest_overhead = OverheadSentinel
    /\ profit_data = <<>>
    /\ profit_differences = <<>>
    /\ profit_extremes = <<Sentinel, Sentinel, <<>>>>

Next ==
    \/ ReadCash(Order)
    \/ CashComputeDifferences(Order)
    \/ CashFindExtremes(Order)
    \/ ReadOverheads(Order)
    \/ FindHighestOverhead(Order)
    \/ ReadProfit(Order)
    \/ ProfitComputeDifferences(Order)
    \/ ProfitFindExtremes(Order)
    \/ OpenReport(Order)
    \/ WriteOverhead(Order)
    \/ WriteCashSection(Order)
    \/ WriteProfitSection(Order)
    \/ CloseReport(Order)

Spec == Init /\ [][Next]_vars

---------------------------------------------------------------------------
(* compute_differences and find_extremes applied to every (day, value)    *)
(* sequence: the cash and the profit versions get the same input          *)

\* the days of an input in ascending or in descending order
DayAt(ascending, n, i) == IF ascending THEN i ELSE n + 1 - i

\* the (day, value) sequence of the values v, the first day being `first`
Series(first, ascending, n, v) ==
    [i \in 1..n |-> <<first - 1 + DayAt(ascending, n, i), v[i]>>]

AnalysisOrder ==
    <<"cash_differences", "profit_differences", "cash_extremes", "profit_extremes">>

InitAnalysis ==
    /\ pc = "cash_differences"
    /\ Unset
    /\ \E n \in 0..MaxRows, a \in BOOLEAN :
         \E v \in [1..n -> Floats(MaxValue)] :
            /\ cash_data = Series(1, a, n, v)
            /\ profit_data = cash_data
    /\ cash_differences = <<>>
    /\ cash_extremes = <<Sentinel, Sentinel, <<>>>>
    /\ overheads_data = <<>>
    /\ highest_overhead = OverheadSentinel
    /\ profit_differences = <<>>
    /\ profit_extremes = <<Sentinel, Sentinel, <<>>>>

NextAnalysis ==
    \/ CashComputeDifferences(AnalysisOrder)
    \/ ProfitComputeDifferences(AnalysisOrder)
    \/ CashFindExtremes(AnalysisOrder)
    \/ ProfitFindExtremes(AnalysisOrder)

SpecAnalysis == InitAnalysis /\ [][NextAnalysis]_vars

---------------------------------------------------------------------------
(* find_extremes applied to every delta sequence *)

ExtremesOrder == <<"cash_extremes", "profit_extremes">>

InitExtremes ==
    /\ pc = "cash_extremes"
    /\ Unset
    /\ cash_data = <<>>
    /\ \E n \in 0..MaxDeltas, a \in BOOLEAN :
         \E v \in [1..n -> Floats(MaxDelta)] :
            /\ cash_differences = Series(2, a, n, v)
            /\ profit_differences = cash_differences
    /\ cash_extremes = <<Sentinel, Sentinel, <<>>>>
    /\ overheads_data = <<>>
    /\ highest_overhead = OverheadSentinel
    /\ profit_data = <<>>
    /\ profit_extremes = <<Sentinel, Sentinel, <<>>>>

NextExtremes ==
    \/ CashFindExtremes(ExtremesOrder)
    \/ ProfitFindExtremes(ExtremesOrder)

SpecExtremes == InitExtremes /\ [][NextExtremes]_vars

---------------------------------------------------------------------------
(* find_highest_overhead applied to every sequence of overhead records *)

OverheadsOrder == <<"highest_overhead">>

InitOverheads ==
    /\ pc = "highest_overhead"
    /\ Unset
    /\ cash_data = <<>>
    /\ cash_differences = <<>>
    /\ cash_extremes = <<Sentinel, Sentinel, <<>>>>
    /\ \E n \in 0..MaxOverheads :
         overheads_data \in
            [1..n -> [category : Categories, overhead : Floats(MaxOverhead)]]
    /\ highest_overhead = OverheadSentinel
    /\ profit_data = <<>>
    /\ profit_differences = <<>>
    /\ profit_extremes = <<Sentinel, Sentinel, <<>>>>

NextOverheads == FindHighestOverhead(OverheadsOrder)

SpecOverheads == InitOverheads /\ [][NextOverheads]_vars

---------------------------------------------------------------------------
(* The report written from every pair of delta sequences: the state after *)
(* the analysis, main.py:35, and the statements of the with block         *)

\* the deltas of a report: the deficits, no change, and one increase
ReportDeltas == {x \in Floats(MaxReportDelta) : x <= 1}

ReportOrder == <<"open", "write_overhead", "write_cash", "write_profit", "close">>

InitReport ==
    /\ pc = "open"
    /\ Unset
    /\ cash_data = <<>>
    /\ profit_data = <<>>
    /\ overheads_data = <<>>
    /\ highest_overhead \in {OverheadSentinel, [category |-> "Rent", overhead |-> 1]}
    /\ \E n \in 0..MaxReportDeltas, a \in BOOLEAN :
         \E m \in 0..(MaxReportDeltas - n) :
            \E v \in [1..n -> ReportDeltas], w \in [1..m -> ReportDeltas] :
               /\ cash_differences = Series(2, a, n, v)
               /\ profit_differences = Series(2, a, m, w)
    /\ cash_extremes = cash_find_extremes(cash_differences)
    /\ profit_extremes = profit_find_extremes(profit_differences)

NextReport ==
    \/ OpenReport(ReportOrder)
    \/ WriteOverhead(ReportOrder)
    \/ WriteCashSection(ReportOrder)
    \/ WriteProfitSection(ReportOrder)
    \/ CloseReport(ReportOrder)

SpecReport == InitReport /\ [][NextReport]_vars

---------------------------------------------------------------------------
(* Properties *)

\* the statement `label` has been executed
Done(label) == \E i \in 1..Len(steps) : steps[i] = label

Min(a, b) == IF a < b THEN a ELSE b

IsDeficit(t) == t[2] < 0

\* the positions of the deficits of a delta sequence
DeficitPositions(d) == {i \in 1..Len(d) : d[i][2] < 0}

---------------------------------------------------------------------------
\* what C1 requires of compute_differences, the equality delta + previous ==
\* current evaluated as Python evaluates it, on floats
DifferencesExact(data, d) ==
    /\ Len(d) = (IF Len(data) <= 1 THEN 0 ELSE Len(data) - 1)
    /\ \A i \in 1..Len(d) :
          /\ d[i][1] = data[i + 1][1]
          /\ d[i][2] = data[i + 1][2] - data[i][2]
          /\ FAdd(d[i][2], data[i][2]) = data[i + 1][2]

\* C1 as stated: compute_differences (cash and profit) returns N-1 entries
\* (0 when N <= 1), entry i is (day[i+1], value[i+1] - value[i]), and
\* delta + previous value == current value for every entry.
C1_DeltaPlusPreviousIsCurrent ==
    /\ Done("cash_differences") => DifferencesExact(cash_data, cash_differences)
    /\ Done("profit_differences") =>
          DifferencesExact(profit_data, profit_differences)

DifferencesRounded(data, d) ==
    /\ Len(d) = (IF Len(data) <= 1 THEN 0 ELSE Len(data) - 1)
    /\ \A i \in 1..Len(d) :
          /\ d[i][1] = data[i + 1][1]
          /\ d[i][2] = FRound(data[i + 1][2] - data[i][2])
          /\ Representable(data[i + 1][2] - data[i][2]) =>
                /\ d[i][2] = data[i + 1][2] - data[i][2]
                /\ FAdd(d[i][2], data[i][2]) = data[i + 1][2]

\* C1 amended: compute_differences (cash and profit) returns N-1 entries (0
\* when N <= 1), in input order; entry i is day[i+1] with the float nearest
\* to value[i+1] - value[i]; delta + previous value == current value holds
\* for every entry whose exact difference is a float.
C1_DifferencesAreRoundedDeltas ==
    /\ Done("cash_differences") => DifferencesRounded(cash_data, cash_differences)
    /\ Done("profit_differences") =>
          DifferencesRounded(profit_data, profit_differences)

\* a descending-day input of three rows or more, one of whose differences is
\* rounded, has been through both versions
C1_Witness ==
    /\ Done("cash_differences") /\ Done("profit_differences")
    /\ Len(cash_data) >= 3
    /\ cash_data[1][1] > cash_data[2][1]
    /\ \E i \in 1..Len(cash_differences) :
          ~Representable(cash_data[i + 1][2] - cash_data[i][2])
    /\ \E i \in 1..Len(cash_differences) :
          /\ cash_differences[i][2] # 0
          /\ Representable(cash_data[i + 1][2] - cash_data[i][2])

---------------------------------------------------------------------------
\* the first position of d whose delta is the greatest (sign = 1) or the
\* least (sign = -1)
FirstExtreme(d, sign) ==
    CHOOSE k \in 1..Len(d) :
        /\ \A j \in 1..Len(d) : sign * d[j][2] <= sign * d[k][2]
        /\ \A j \in 1..(k - 1) : sign * d[j][2] < sign * d[k][2]

HighestIncreaseOf(d) ==
    IF \E i \in 1..Len(d) : d[i][2] > 0 THEN d[FirstExtreme(d, 1)] ELSE Sentinel

HighestDecreaseOf(d) ==
    IF \E i \in 1..Len(d) : d[i][2] < 0 THEN d[FirstExtreme(d, -1)] ELSE Sentinel

\* C2: highest_increase is the first record with the maximum delta when some
\* delta is > 0, and the sentinel (0, 0) when every delta is <= 0.
C2_HighestIncrease ==
    /\ Done("cash_extremes") =>
          cash_extremes[1] = HighestIncreaseOf(cash_differences)
    /\ Done("profit_extremes") =>
          profit_extremes[1] = HighestIncreaseOf(profit_differences)

\* two records tie for a positive maximum and the scan has kept the first
C2_Witness ==
    /\ Done("cash_extremes") /\ Done("profit_extremes")
    /\ \E i, j \in 1..Len(cash_differences) :
          /\ i < j
          /\ cash_differences[i][2] > 0
          /\ cash_differences[i][2] = cash_differences[j][2]
          /\ cash_extremes[1] = cash_differences[i]
          /\ \A k \in 1..(i - 1) : cash_differences[k][2] <= 0

---------------------------------------------------------------------------
\* two independent passes: one for the maximum, one for the minimum
RECURSIVE MaxPass(_, _, _)
MaxPass(d, i, best) ==
    IF i > Len(d) THEN best
    ELSE MaxPass(d, i + 1, IF d[i][2] > best[2] THEN d[i] ELSE best)

RECURSIVE MinPass(_, _, _)
MinPass(d, i, best) ==
    IF i > Len(d) THEN best
    ELSE MinPass(d, i + 1, IF d[i][2] < best[2] THEN d[i] ELSE best)

DecreaseContract(d, extremes) ==
    /\ extremes[2] = HighestDecreaseOf(d)
    /\ extremes[1] = MaxPass(d, 1, Sentinel)
    /\ extremes[2] = MinPass(d, 1, Sentinel)

\* C3: highest_decrease is the first record with the minimum delta when some
\* delta is < 0, the sentinel (0, 0) otherwise; the if/elif of the single
\* pass skips no new strict minimum: the result is that of two independent
\* passes.
C3_HighestDecrease ==
    /\ Done("cash_extremes") => DecreaseContract(cash_differences, cash_extremes)
    /\ Done("profit_extremes") =>
          DecreaseContract(profit_differences, profit_extremes)

\* a pass over an increase, then two records that tie for the minimum
C3_Witness ==
    /\ Done("cash_extremes") /\ Done("profit_extremes")
    /\ \E h, i, j \in 1..Len(cash_differences) :
          /\ h < i /\ i < j
          /\ cash_differences[h][2] > 0
          /\ cash_differences[i][2] < 0
          /\ cash_differences[i][2] = cash_differences[j][2]
          /\ cash_extremes[2] = cash_differences[i]

---------------------------------------------------------------------------
\* the position in d of the record t (the days of d are distinct)
PositionIn(d, t) == CHOOSE i \in 1..Len(d) : d[i] = t

TopDeficitsContract(d, top) ==
    /\ Len(top) = Min(TopCount, Cardinality(DeficitPositions(d)))
    /\ \A k \in 1..Len(top) : \E i \in DeficitPositions(d) : d[i] = top[k]
    /\ \A k, l \in 1..Len(top) : k < l =>
          /\ top[k] # top[l]
          /\ top[k][2] <= top[l][2]
          /\ top[k][2] = top[l][2] => PositionIn(d, top[k]) < PositionIn(d, top[l])
    /\ \A i \in DeficitPositions(d) :
          (\A k \in 1..Len(top) : top[k] # d[i]) =>
              \A k \in 1..Len(top) : top[k][2] <= d[i][2]

\* C4: top_deficits has min(3, number of deltas < 0) records, all of them
\* deficits of the input, ascending by delta; no omitted deficit is strictly
\* smaller than an included one; equal deltas keep their input order.
C4_TopDeficits ==
    /\ Done("cash_extremes") =>
          TopDeficitsContract(cash_differences, cash_extremes[3])
    /\ Done("profit_extremes") =>
          TopDeficitsContract(profit_differences, profit_extremes[3])

\* more than three deficits, out of order, two of the kept ones equal
C4_Witness ==
    /\ Done("cash_extremes") /\ Done("profit_extremes")
    /\ Cardinality(DeficitPositions(cash_differences)) > TopCount
    /\ cash_differences[1][2] > cash_differences[2][2]
    /\ cash_differences[1][2] < 0
    /\ cash_extremes[3][1][2] = cash_extremes[3][2][2]
    /\ cash_extremes[3][2][2] < cash_extremes[3][3][2]

---------------------------------------------------------------------------
FirstHighest(o) ==
    CHOOSE k \in 1..Len(o) :
        /\ \A j \in 1..Len(o) : o[j].overhead <= o[k].overhead
        /\ \A j \in 1..(k - 1) : o[j].overhead < o[k].overhead

\* C5: find_highest_overhead returns a record whose amount is >= every
\* amount of the input: the first record with the maximum amount when some
\* amount is > 0, the sentinel {'category': '', 'overhead': 0} otherwise.
C5_HighestOverhead ==
    Done("highest_overhead") =>
        /\ \A i \in 1..Len(overheads_data) :
              highest_overhead.overhead >= overheads_data[i].overhead
        /\ highest_overhead =
              IF \E i \in 1..Len(overheads_data) : overheads_data[i].overhead > 0
              THEN overheads_data[FirstHighest(overheads_data)]
              ELSE OverheadSentinel

\* two categories tie for a positive maximum and the first is returned
C5_Witness ==
    /\ Done("highest_overhead")
    /\ \E i, j \in 1..Len(overheads_data) :
          /\ i < j
          /\ overheads_data[i].overhead = overheads_data[j].overhead
          /\ overheads_data[i].category # overheads_data[j].category
          /\ overheads_data[i].overhead > 0
          /\ highest_overhead = overheads_data[i]

---------------------------------------------------------------------------
\* the number of report lines with the label
CountLabel(label) == Cardinality({i \in 1..Len(report) : report[i].label = label})

\* the lines of a section that took the surplus branch: one surplus line and
\* no deficit line
SurplusBranch(surplus, deficit, ranked) ==
    /\ CountLabel(surplus) = 1
    /\ CountLabel(deficit) = 0
    /\ CountLabel(ranked) = 0

\* the lines of a section that took the deficit branch
DeficitBranch(surplus, deficit, ranked) ==
    /\ CountLabel(surplus) = 0
    /\ CountLabel(ranked) >= 1

\* C6: the cash section takes the surplus branch (one [HIGHEST CASH SURPLUS]
\* line, no deficit lines) iff no cash delta is negative, and the profit
\* section takes its surplus branch iff no profit delta is negative, each
\* decided by its own full delta sequence.
C6_SurplusBranchIffNoDeficit ==
    /\ Done("write_cash") =>
          IF DeficitPositions(cash_differences) = {}
          THEN SurplusBranch("HIGHEST CASH SURPLUS", "CASH DEFICIT",
                             "HIGHEST CASH DEFICIT")
          ELSE DeficitBranch("HIGHEST CASH SURPLUS", "CASH DEFICIT",
                             "HIGHEST CASH DEFICIT")
    /\ Done("write_profit") =>
          IF DeficitPositions(profit_differences) = {}
          THEN SurplusBranch("HIGHEST NET PROFIT SURPLUS", "NET PROFIT DEFICIT",
                             "HIGHEST NET PROFIT DEFICIT")
          ELSE DeficitBranch("HIGHEST NET PROFIT SURPLUS", "NET PROFIT DEFICIT",
                             "HIGHEST NET PROFIT DEFICIT")

\* the two sections are written and decide differently: the cash deltas hold
\* a deficit besides an increase, the profit deltas an increase and no deficit
C6_Witness ==
    /\ Done("write_cash") /\ Done("write_profit")
    /\ DeficitPositions(cash_differences) # {}
    /\ cash_extremes[1] # Sentinel
    /\ DeficitPositions(profit_differences) = {}
    /\ profit_extremes[1] # Sentinel

---------------------------------------------------------------------------
\* the number of lines of a section
SectionLen(d) ==
    IF DeficitPositions(d) = {} THEN 2
    ELSE LET k == Cardinality(DeficitPositions(d))
         IN  k + 1 + Min(TopCount, k) + 1

\* the lines first..first+SectionLen(d)-1 of the report are the section of d
\* in the deficit branch
DeficitSection(first, d, deficit, ranked) ==
    LET neg == SelectSeq(d, IsDeficit)
        k == Len(neg)
        r == Min(TopCount, k)
        sec == SubSeq(report, first, first + SectionLen(d) - 1)
    IN  /\ Len(report) >= first + SectionLen(d) - 1
        /\ \A j \in 1..k :
              sec[j] = Line(deficit, "", "", neg[j][1], -neg[j][2])
        /\ sec[k + 1] = Blank
        /\ \A j \in 1..r :
              /\ sec[k + 1 + j].label = ranked
              /\ sec[k + 1 + j].ordinal = Ordinals[j]
              /\ \E i \in 1..k : /\ sec[i].day = sec[k + 1 + j].day
                                 /\ sec[i].amount = sec[k + 1 + j].amount
              /\ j < r => sec[k + 1 + j].amount >= sec[k + 2 + j].amount
        /\ \A i \in 1..k : sec[i].amount <= sec[k + 2].amount
        /\ sec[k + r + 2] = Blank

\* C7: a section with a negative delta is, in order: one deficit line per
\* negative delta in input order with the absolute amount, a blank line,
\* min(3, number of negative deltas) lines ranked 1ST, 2ND, 3RD with the
\* most negative delta first and absolute amounts, a blank line; every
\* ranked (day, amount) is among the deficit lines of the section.
C7_DeficitSectionLayout ==
    /\ (Done("write_cash") /\ DeficitPositions(cash_differences) # {}) =>
          DeficitSection(3, cash_differences, "CASH DEFICIT",
                         "HIGHEST CASH DEFICIT")
    /\ (Done("write_profit") /\ DeficitPositions(profit_differences) # {}) =>
          /\ DeficitSection(3 + SectionLen(cash_differences), profit_differences,
                            "NET PROFIT DEFICIT", "HIGHEST NET PROFIT DEFICIT")
          /\ Len(report) = 2 + SectionLen(cash_differences)
                             + SectionLen(profit_differences)

\* a section of more than three deficits, not in order of severity, has been
\* written
C7_Witness ==
    /\ Done("write_cash")
    /\ Cardinality(DeficitPositions(cash_differences)) > TopCount
    /\ cash_differences[1][2] > cash_differences[2][2]
    /\ cash_differences[1][2] < 0
    /\ cash_differences[1][1] > cash_differences[2][1]

\* a profit section with deficits has been written after a cash section with
\* deficits
C7_WitnessProfit ==
    /\ Done("write_profit")
    /\ Cardinality(DeficitPositions(profit_differences)) >= 2
    /\ DeficitPositions(cash_differences) # {}

---------------------------------------------------------------------------
ReadSteps == {"read_cash", "read_overheads", "read_profit"}

AnalysisSteps ==
    {"cash_differences", "cash_extremes", "highest_overhead",
     "profit_differences", "profit_extremes"}

\* every statement of `before` that the run executes precedes position i
AllBefore(before, i) ==
    \A b \in before : \E j \in 1..(i - 1) : steps[j] = b

\* C8 as stated: all three input sources are read to completion before any
\* analysis step begins.
C8_AllReadBeforeAnyAnalysis ==
    \A i \in 1..Len(steps) :
        steps[i] \in AnalysisSteps => AllBefore(ReadSteps, i)

\* C8 amended: each input source is read to completion before the analysis
\* of that source begins, and all three sources are read and every analysis
\* step is complete before the output file is opened.
C8_ReadBeforeOwnAnalysisAndAllBeforeOpen ==
    \A i \in 1..Len(steps) :
        /\ steps[i] \in {"cash_differences", "cash_extremes"} =>
              AllBefore({"read_cash"}, i)
        /\ steps[i] = "cash_extremes" => AllBefore({"cash_differences"}, i)
        /\ steps[i] = "highest_overhead" => AllBefore({"read_overheads"}, i)
        /\ steps[i] \in {"profit_differences", "profit_extremes"} =>
              AllBefore({"read_profit"}, i)
        /\ steps[i] = "profit_extremes" => AllBefore({"profit_differences"}, i)
        /\ steps[i] = "open" => AllBefore(ReadSteps \cup AnalysisSteps, i)
        /\ steps[i] \in {"write_overhead", "write_cash", "write_profit", "close"} =>
              AllBefore({"open"}, i)

\* the report file is open: every read and every analysis step is done
C8_Witness ==
    /\ report_file = "open"
    /\ Done("open")
    /\ Len(cash_data) >= 2 /\ Len(profit_data) >= 2 /\ Len(overheads_data) >= 1

---------------------------------------------------------------------------
\* a row of the file lacks a required column or holds a value that does not
\* convert
MalformedRow(file, columns) ==
    \E i \in 1..Len(file) : \E c \in columns : LookupError(file[i], c) # ""

---------------------------------------------------------------------------
\* C10: the cash and the profit versions of compute_differences and of
\* find_extremes return equal results on every input, and the stable re-sort
\* and [:3] slice of generate_summary_report leave top_deficits unchanged
\* for both.
C10_CashAndProfitVersionsAgree ==
    /\ (Done("cash_differences") /\ Done("profit_differences")) =>
          cash_differences = profit_differences
    /\ (Done("cash_extremes") /\ Done("profit_extremes")) =>
          cash_extremes = profit_extremes
    /\ Done("cash_extremes") =>
          ReportTopDeficits(cash_extremes[3]) = cash_extremes[3]
    /\ Done("profit_extremes") =>
          ReportTopDeficits(profit_extremes[3]) = profit_extremes[3]

\* both versions have run on an input whose deficits are not in order of
\* severity and whose extremes are not the sentinels
C10_Witness ==
    /\ Done("cash_extremes") /\ Done("profit_extremes")
    /\ Len(cash_extremes[3]) >= 2
    /\ cash_extremes[3][1] # SelectSeq(cash_differences, IsDeficit)[1]
    /\ cash_extremes[1] # Sentinel

=============================================================================
